---- MODULE Spec2Model ----
(***************************************************************************)
(* VascularAI dashboard backend (backend/main.py).                         *)
(*                                                                         *)
(* The service holds two module-level tables, patients_data (a list) and   *)
(* metrics_data (a dict), and serves five GET routes behind a CORS         *)
(* middleware.  The handlers are plain `def` functions, so the framework   *)
(* runs them on worker threads: several requests can be in flight at once. *)
(* A client slot goes  idle -> pending (request accepted) -> done          *)
(* (response written) -> idle.                                             *)
(*                                                                         *)
(* Python values are modelled with their runtime type, JSON values with    *)
(* their JSON type: the response body is the JSON encoding of what the     *)
(* handler returned, not the Python object itself.  Floats are kept as     *)
(* integer hundredths (0.92 is 92, 4.2 is 420).                            *)
(***************************************************************************)
EXTENDS Integers, Sequences, FiniteSets, TLC

VARIABLES patients_data, metrics_data, request, response

vars == <<patients_data, metrics_data, request, response>>

\* Number of client connections that can be in flight at the same time.
MaxClients == 2

Clients == 1..MaxClients

-----------------------------------------------------------------------------
\* Python values

PyStr(s) == [py |-> "str", v |-> s]

PyInt(n) == [py |-> "int", v |-> n]

PyFloat(x100) == [py |-> "float", x100 |-> x100]

PyBool(b) == [py |-> "bool", v |-> b]

PyNone == [py |-> "NoneType"]

PyList(items) == [py |-> "list", items |-> items]

PyDict(members) == [py |-> "dict", members |-> members]

-----------------------------------------------------------------------------
\* Mock data, as bound when the module is imported

Patient(id, name, age, status, inferenceTime, result, date) ==
    PyDict([id |-> PyStr(id), name |-> PyStr(name), age |-> PyInt(age),
            status |-> PyStr(status), inferenceTime |-> inferenceTime,
            result |-> PyStr(result), date |-> PyStr(date)])

patients_data_0 ==
    PyList(<<
        Patient("Patient_001", "John Doe", 65, "completed", PyFloat(420), "Success", "2026-02-28"),
        Patient("Patient_002", "Jane Smith", 72, "completed", PyFloat(380), "Success", "2026-02-28"),
        Patient("Patient_003", "Robert Chen", 58, "processing", PyNone, "Processing", "2026-03-01"),
        Patient("Patient_004", "Maria Garcia", 61, "completed", PyFloat(510), "Failed", "2026-02-27"),
        Patient("Patient_005", "David Kim", 55, "completed", PyFloat(350), "Success", "2026-02-27"),
        Patient("Patient_006", "Sarah Wilson", 68, "queued", PyNone, "Queued", "2026-03-01")
    >>)

Metric(metric, value_x100) ==
    PyDict([metric |-> PyStr(metric), value |-> PyFloat(value_x100)])

Metrics(clDice, dice, iou) ==
    PyList(<<Metric("clDice", clDice), Metric("Dice Score", dice), Metric("IoU", iou)>>)

\* data slip: a metric list registered for the patient still being processed
metrics_data_0_with_processing ==
    ("Patient_001" :> Metrics(92, 88, 81)) @@
    ("Patient_002" :> Metrics(89, 85, 78)) @@
    ("Patient_003" :> Metrics(0, 0, 0)) @@
    ("Patient_004" :> Metrics(45, 38, 30)) @@
    ("Patient_005" :> Metrics(95, 91, 85))

\* data slip: no metric list for the completed patient whose result is Failed
metrics_data_0_without_failed ==
    ("Patient_001" :> Metrics(92, 88, 81)) @@
    ("Patient_002" :> Metrics(89, 85, 78)) @@
    ("Patient_005" :> Metrics(95, 91, 85))

metrics_data_0 ==
    ("Patient_001" :> Metrics(92, 88, 81)) @@
    ("Patient_002" :> Metrics(89, 85, 78)) @@
    ("Patient_004" :> Metrics(45, 38, 30)) @@
    ("Patient_005" :> Metrics(95, 91, 85))

-----------------------------------------------------------------------------
\* Route handlers: what each function returns, read from the current tables

root ==
    PyDict([message |-> PyStr("VascularAI API v1.2.0"), status |-> PyStr("online")])

\* slip: `p["inferenceTime"] or 0.0` when building the listing
get_patients_zero_default ==
    PyList([i \in DOMAIN patients_data.items |->
        LET p == patients_data.items[i]
        IN  IF p.members.inferenceTime = PyNone
            THEN PyDict([p.members EXCEPT !.inferenceTime = PyFloat(0)])
            ELSE p])

get_patients == patients_data

Reverse(seq) == [i \in DOMAIN seq |-> seq[Len(seq) + 1 - i]]

\* slip: the list is returned newest-first
get_metrics_reversed(patient_id) ==
    IF patient_id \in DOMAIN metrics_data
    THEN PyList(Reverse(metrics_data[patient_id].items))
    ELSE PyDict([error |-> PyStr("Patient not found")])

\* slip: `metrics_data.get(patient_id, [])`
get_metrics_default_empty(patient_id) ==
    IF patient_id \in DOMAIN metrics_data
    THEN metrics_data[patient_id]
    ELSE PyList(<<>>)

get_metrics(patient_id) ==
    IF patient_id \in DOMAIN metrics_data
    THEN metrics_data[patient_id]
    ELSE PyDict([error |-> PyStr("Patient not found")])

\* slip: the stage is read from the Patient_003 record of the patient table
get_status_from_table ==
    PyDict([patientId |-> PyStr("Patient_003"),
            progress |-> PyInt(80),
            stage |-> patients_data.items[3].members.result,
            message |-> PyStr("Processing Patient_003... 80%")])

get_status ==
    PyDict([patientId |-> PyStr("Patient_003"),
            progress |-> PyInt(80),
            stage |-> PyStr("Vessel Segmentation"),
            message |-> PyStr("Processing Patient_003... 80%")])

get_server_status ==
    PyDict([online |-> PyBool(TRUE),
            version |-> PyStr("v1.2.0"),
            gpu |-> PyStr("Apple M2 Pro"),
            modelVersion |-> PyStr("VascularNet v2.1")])

-----------------------------------------------------------------------------
\* The framework's handling of a handler's return value

\* JSON encoding: list -> array (same order), dict -> object (same keys),
\* str -> string, int and float -> number, bool -> boolean, None -> null.
RECURSIVE jsonable_encoder(_)
jsonable_encoder(obj) ==
    CASE obj.py = "list" ->
           [json |-> "array",
            items |-> [i \in DOMAIN obj.items |-> jsonable_encoder(obj.items[i])]]
      [] obj.py = "dict" ->
           [json |-> "object",
            members |-> [k \in DOMAIN obj.members |-> jsonable_encoder(obj.members[k])]]
      [] obj.py = "str" -> [json |-> "string", v |-> obj.v]
      [] obj.py = "int" -> [json |-> "number", x100 |-> obj.v * 100]
      [] obj.py = "float" -> [json |-> "number", x100 |-> obj.x100]
      [] obj.py = "bool" -> [json |-> "boolean", v |-> obj.v]
      [] obj.py = "NoneType" -> [json |-> "null"]

\* No route sets status_code or returns a Response object: the framework
\* answers with its default status and a JSON body.
DefaultStatusCode == 200

serialize_response(content) ==
    [status_code |-> DefaultStatusCode,
     headers |-> ("content-type" :> "application/json"),
     body |-> jsonable_encoder(content)]

-----------------------------------------------------------------------------
\* CORS middleware, as configured

\* slip: allow_origins=["*"]
allow_origins_wildcard == {"*"}

allow_origins == {"http://localhost:5173", "http://localhost:3000"}

allow_credentials == TRUE

allow_methods == {"*"}

allow_headers == {"*"}

allow_all_origins == "*" \in allow_origins

allow_all_headers == "*" \in allow_headers

preflight_explicit_allow_origin == ~allow_all_origins \/ allow_credentials

AllMethods == "DELETE, GET, HEAD, OPTIONS, PATCH, POST, PUT"

AllMethodSet == {"DELETE", "GET", "HEAD", "OPTIONS", "PATCH", "POST", "PUT"}

NoHeaders == [h \in {} |-> ""]

\* b's entries override a's
Update(a, b) == b @@ a

simple_headers ==
    Update(IF allow_all_origins
           THEN ("access-control-allow-origin" :> "*") ELSE NoHeaders,
           IF allow_credentials
           THEN ("access-control-allow-credentials" :> "true") ELSE NoHeaders)

preflight_headers ==
    Update(Update(IF preflight_explicit_allow_origin
                  THEN ("vary" :> "Origin")
                  ELSE ("access-control-allow-origin" :> "*"),
                  ("access-control-allow-methods" :>
                      (IF "*" \in allow_methods THEN AllMethods ELSE "GET")) @@
                  ("access-control-max-age" :> "600")),
           IF allow_credentials
           THEN ("access-control-allow-credentials" :> "true") ELSE NoHeaders)

is_allowed_origin(origin) ==
    IF allow_all_origins THEN TRUE ELSE origin \in allow_origins

allow_explicit_origin(headers, origin) ==
    Update(headers, ("access-control-allow-origin" :> origin) @@ ("vary" :> "Origin"))

\* Headers added to the response of a request that carries an Origin header.
\* No request of the model carries a cookie.
cors_send(request_headers, resp) ==
    LET origin == request_headers["origin"]
        h1 == Update(resp.headers, simple_headers)
        h2 == IF ~allow_all_origins /\ is_allowed_origin(origin)
              THEN allow_explicit_origin(h1, origin)
              ELSE h1
    IN  [resp EXCEPT !.headers = h2]

preflight_response(request_headers) ==
    LET requested_origin == request_headers["origin"]
        requested_method == request_headers["access-control-request-method"]
        origin_ok == is_allowed_origin(requested_origin)
        method_ok == \/ "*" \in allow_methods /\ requested_method \in AllMethodSet
                     \/ requested_method \in allow_methods
        headers == IF origin_ok /\ preflight_explicit_allow_origin
                   THEN Update(preflight_headers,
                               "access-control-allow-origin" :> requested_origin)
                   ELSE preflight_headers
        failure_text == CASE ~origin_ok /\ ~method_ok -> "Disallowed CORS origin, method"
                          [] ~origin_ok /\ method_ok -> "Disallowed CORS origin"
                          [] origin_ok /\ ~method_ok -> "Disallowed CORS method"
                          [] OTHER -> "OK"
    IN  [status_code |-> IF origin_ok /\ method_ok THEN 200 ELSE 400,
         headers |-> Update(headers, "content-type" :> "text/plain; charset=utf-8"),
         body |-> [text |-> failure_text]]

IsPreflight(req) ==
    /\ "origin" \in DOMAIN req.headers
    /\ req.method = "OPTIONS"
    /\ "access-control-request-method" \in DOMAIN req.headers

\* The middleware around a route: untouched without an Origin header,
\* CORS headers added to the route's response otherwise.
CORSMiddleware(req, resp) ==
    IF "origin" \notin DOMAIN req.headers THEN resp ELSE cors_send(req.headers, resp)

-----------------------------------------------------------------------------
\* Requests the clients send

Origins == {"http://localhost:5173", "http://localhost:3000",
            "http://evil.example", "https://localhost:5173"}

\* every id of the patient table, the empty string and a malformed id
PatientIdInputs == {"Patient_001", "Patient_002", "Patient_003", "Patient_004",
                    "Patient_005", "Patient_006", "", "patient_001"}

PlainRoutes == {"/", "/api/patients", "/api/status", "/api/server"}

MetricsRoute == "/api/metrics/{patient_id}"

RequestHeaders == {NoHeaders} \cup {("origin" :> o) : o \in Origins}

\* The handlers never read the request headers and the middleware never reads
\* the path, so the metrics requests carry three of the five header choices.
MetricsRequestHeaders ==
    {NoHeaders, "origin" :> "http://localhost:5173", "origin" :> "http://evil.example"}

GetRequests ==
    {[method |-> "GET", route |-> r, headers |-> h] :
        r \in PlainRoutes, h \in RequestHeaders}
    \cup
    {[method |-> "GET", route |-> MetricsRoute, patient_id |-> p, headers |-> h] :
        p \in PatientIdInputs, h \in MetricsRequestHeaders}

PreflightRequests ==
    {[method |-> "OPTIONS", route |-> "/api/patients",
      headers |-> ("origin" :> o) @@ ("access-control-request-method" :> "GET")] :
        o \in Origins}

Requests == GetRequests \cup PreflightRequests

NoRequest == [method |-> "none"]

NoResponse == [status_code |-> 0]

Idle(c) == request[c] = NoRequest

Pending(c) == request[c] # NoRequest /\ response[c] = NoResponse

Done(c) == request[c] # NoRequest /\ response[c] # NoResponse

Routed(c, route) ==
    /\ Pending(c)
    /\ ~IsPreflight(request[c])
    /\ request[c].method = "GET"
    /\ request[c].route = route

-----------------------------------------------------------------------------
\* Actions

Init ==
    /\ patients_data = patients_data_0
    /\ metrics_data = metrics_data_0
    /\ request = [c \in Clients |-> NoRequest]
    /\ response = [c \in Clients |-> NoResponse]

\* a client sends a request
Send(c) ==
    /\ Idle(c)
    /\ \E req \in Requests : request' = [request EXCEPT ![c] = req]
    /\ UNCHANGED <<patients_data, metrics_data, response>>

Respond(c, content) ==
    response' = [response EXCEPT ![c] =
                    CORSMiddleware(request[c], serialize_response(content))]

GetRoot(c) ==
    /\ Routed(c, "/")
    /\ Respond(c, root)
    /\ UNCHANGED <<patients_data, metrics_data, request>>

\* slip: `patients_data.reverse()` before returning the list
ListPatientsReverseInPlace(c) ==
    /\ Routed(c, "/api/patients")
    /\ patients_data' = PyList(Reverse(patients_data.items))
    /\ Respond(c, patients_data')
    /\ UNCHANGED <<metrics_data, request>>

ListPatients(c) ==
    /\ Routed(c, "/api/patients")
    /\ Respond(c, get_patients)
    /\ UNCHANGED <<patients_data, metrics_data, request>>

\* slip: the unknown id raises HTTPException(status_code=404)
GetMetricsRaise404(c) ==
    /\ Routed(c, MetricsRoute)
    /\ IF request[c].patient_id \in DOMAIN metrics_data
       THEN Respond(c, get_metrics(request[c].patient_id))
       ELSE response' = [response EXCEPT ![c] =
                CORSMiddleware(request[c],
                    [status_code |-> 404,
                     headers |-> ("content-type" :> "application/json"),
                     body |-> jsonable_encoder(
                                 PyDict([detail |-> PyStr("Patient not found")]))])]
    /\ UNCHANGED <<patients_data, metrics_data, request>>

\* slip: `metrics_data.pop(patient_id)` instead of a lookup
GetMetricsPop(c) ==
    /\ Routed(c, MetricsRoute)
    /\ Respond(c, get_metrics(request[c].patient_id))
    /\ metrics_data' = [p \in DOMAIN metrics_data \ {request[c].patient_id} |->
                            metrics_data[p]]
    /\ UNCHANGED <<patients_data, request>>

GetMetrics(c) ==
    /\ Routed(c, MetricsRoute)
    /\ Respond(c, get_metrics(request[c].patient_id))
    /\ UNCHANGED <<patients_data, metrics_data, request>>

GetStatus(c) ==
    /\ Routed(c, "/api/status")
    /\ Respond(c, get_status)
    /\ UNCHANGED <<patients_data, metrics_data, request>>

GetServerStatus(c) ==
    /\ Routed(c, "/api/server")
    /\ Respond(c, get_server_status)
    /\ UNCHANGED <<patients_data, metrics_data, request>>

\* the middleware answers a preflight itself; no route runs
Preflight(c) ==
    /\ Pending(c)
    /\ IsPreflight(request[c])
    /\ response' = [response EXCEPT ![c] = preflight_response(request[c].headers)]
    /\ UNCHANGED <<patients_data, metrics_data, request>>

\* the client has read the response; the connection slot is free again
Receive(c) ==
    /\ Done(c)
    /\ request' = [request EXCEPT ![c] = NoRequest]
    /\ response' = [response EXCEPT ![c] = NoResponse]
    /\ UNCHANGED <<patients_data, metrics_data>>

Next ==
    \E c \in Clients :
        \/ Send(c)
        \/ GetRoot(c)
        \/ ListPatients(c)
        \/ GetMetrics(c)
        \/ GetStatus(c)
        \/ GetServerStatus(c)
        \/ Preflight(c)
        \/ Receive(c)

Spec == Init /\ [][Next]_vars

-----------------------------------------------------------------------------
\* JSON values the properties below are written in

JStr(s) == [json |-> "string", v |-> s]

JNum(x100) == [json |-> "number", x100 |-> x100]

JNull == [json |-> "null"]

JBool(b) == [json |-> "boolean", v |-> b]

JArr(items) == [json |-> "array", items |-> items]

JObj(members) == [json |-> "object", members |-> members]

JMetric(metric, x100) == JObj([metric |-> JStr(metric), value |-> JNum(x100)])

JMetrics(clDice, dice, iou) ==
    JArr(<<JMetric("clDice", clDice), JMetric("Dice Score", dice), JMetric("IoU", iou)>>)

\* the metric lists of the four patients that have one
RegisteredMetrics ==
    [p \in {"Patient_001", "Patient_002", "Patient_004", "Patient_005"} |->
        CASE p = "Patient_001" -> JMetrics(92, 88, 81)
          [] p = "Patient_002" -> JMetrics(89, 85, 78)
          [] p = "Patient_004" -> JMetrics(45, 38, 30)
          [] p = "Patient_005" -> JMetrics(95, 91, 85)]

JPatient(id, name, age, status, inferenceTime, result, date) ==
    JObj([id |-> JStr(id), name |-> JStr(name), age |-> JNum(age * 100),
          status |-> JStr(status), inferenceTime |-> inferenceTime,
          result |-> JStr(result), date |-> JStr(date)])

SixPatients ==
    JArr(<<
        JPatient("Patient_001", "John Doe", 65, "completed", JNum(420), "Success", "2026-02-28"),
        JPatient("Patient_002", "Jane Smith", 72, "completed", JNum(380), "Success", "2026-02-28"),
        JPatient("Patient_003", "Robert Chen", 58, "processing", JNull, "Processing", "2026-03-01"),
        JPatient("Patient_004", "Maria Garcia", 61, "completed", JNum(510), "Failed", "2026-02-27"),
        JPatient("Patient_005", "David Kim", 55, "completed", JNum(350), "Success", "2026-02-27"),
        JPatient("Patient_006", "Sarah Wilson", 68, "queued", JNull, "Queued", "2026-03-01")
    >>)

NotFoundBody == JObj([error |-> JStr("Patient not found")])

StatusPayload ==
    JObj([patientId |-> JStr("Patient_003"),
          progress |-> JNum(8000),
          stage |-> JStr("Vessel Segmentation"),
          message |-> JStr("Processing Patient_003... 80%")])

ServerPayload ==
    JObj([online |-> JBool(TRUE),
          version |-> JStr("v1.2.0"),
          gpu |-> JStr("Apple M2 Pro"),
          modelVersion |-> JStr("VascularNet v2.1")])

RootPayload ==
    JObj([message |-> JStr("VascularAI API v1.2.0"), status |-> JStr("online")])

\* client c holds the response of a GET on the route
Served(c, route) ==
    /\ Done(c)
    /\ request[c].method = "GET"
    /\ request[c].route = route

ServedMetrics(c, p) == Served(c, MetricsRoute) /\ request[c].patient_id = p

HasOrigin(c) == "origin" \in DOMAIN request[c].headers

AllowOrigin == "access-control-allow-origin"

-----------------------------------------------------------------------------
\* Properties

\* C1: for each of the four ids that are keys of the metrics table, the
\* response of GetMetrics is the list registered for that id, entry by entry
\* and in definition order; for Patient_001 it has 3 entries and the first is
\* {metric: clDice, value: 0.92}.
MetricsReturnedAsRegistered ==
    /\ DOMAIN metrics_data = DOMAIN RegisteredMetrics
    /\ \A c \in Clients : \A p \in DOMAIN metrics_data :
          ServedMetrics(c, p) => response[c].body = RegisteredMetrics[p]
    /\ \A c \in Clients :
          ServedMetrics(c, "Patient_001") =>
              /\ Len(response[c].body.items) = 3
              /\ response[c].body.items[1] = JMetric("clDice", 92)

MetricsOfPatient001Served ==
    \E c \in Clients :
        /\ ServedMetrics(c, "Patient_001")
        /\ response[c].body.json = "array"
        /\ Len(response[c].body.items) = 3

SameStatusKnownOrUnknown ==
    \A c \in Clients :
        Served(c, MetricsRoute) =>
            /\ response[c].status_code = DefaultStatusCode
            /\ response[c].status_code = 200
            /\ IF request[c].patient_id \in DOMAIN metrics_data
               THEN response[c].body.json = "array"
               ELSE /\ response[c].body.json = "object"
                    /\ "error" \in DOMAIN response[c].body.members

KnownAndUnknownServed ==
    \E c, d \in Clients :
        /\ ServedMetrics(c, "Patient_002") /\ response[c].body.json = "array"
        /\ ServedMetrics(d, "Patient_006") /\ response[d].body.json = "object"
        /\ response[c].status_code = response[d].status_code

\* C4: every response of ListPatients is the same 6 records in definition
\* order, whatever was served before; the first has id Patient_001, status
\* completed and inferenceTime 4.2.
ListPatientsConstant ==
    \A c \in Clients :
        Served(c, "/api/patients") =>
            /\ response[c].body = SixPatients
            /\ Len(response[c].body.items) = 6
            /\ response[c].body.items[1].members.id = JStr("Patient_001")
            /\ response[c].body.items[1].members.status = JStr("completed")
            /\ response[c].body.items[1].members.inferenceTime = JNum(420)

PatientsListedTwice ==
    /\ Served(1, "/api/patients")
    /\ Served(2, "/api/patients")
    /\ response[1].body.items[6].members.id = JStr("Patient_006")

\* C5: every response of GetStatus is the fixed payload {patientId:
\* Patient_003, progress: 80, stage: "Vessel Segmentation", message:
\* "Processing Patient_003... 80%"} and every response of GetServerStatus is
\* the fixed server payload, so any two calls of one operation agree.
StatusPayloadsConstant ==
    /\ \A c \in Clients :
          /\ Served(c, "/api/status") => response[c].body = StatusPayload
          /\ Served(c, "/api/server") => response[c].body = ServerPayload
    /\ \A c, d \in Clients : \A r \in {"/api/status", "/api/server"} :
          (Served(c, r) /\ Served(d, r)) => response[c].body = response[d].body

StatusAndServerServed ==
    \E c, d \in Clients :
        /\ Served(c, "/api/status") /\ response[c].body.members.progress = JNum(8000)
        /\ Served(d, "/api/server") /\ response[d].body.members.online = JBool(TRUE)

\* C6: a response carries an allow-origin header equal to the request's
\* origin exactly when that origin is http://localhost:5173 or
\* http://localhost:3000; a request without an Origin header gets no
\* allow-origin header, and the header is never the wildcard.
CorsPolicy ==
    \A c \in Clients :
        Done(c) =>
            LET h == response[c].headers
            IN  /\ (AllowOrigin \in DOMAIN h => h[AllowOrigin] # "*")
                /\ IF HasOrigin(c)
                   THEN (AllowOrigin \in DOMAIN h
                            /\ h[AllowOrigin] = request[c].headers["origin"])
                        <=> request[c].headers["origin"] \in
                                {"http://localhost:5173", "http://localhost:3000"}
                   ELSE AllowOrigin \notin DOMAIN h

ListedAndUnlistedOriginServed ==
    \E c, d \in Clients :
        /\ Done(c) /\ HasOrigin(c)
        /\ request[c].headers["origin"] = "http://localhost:5173"
        /\ AllowOrigin \in DOMAIN response[c].headers
        /\ response[c].headers[AllowOrigin] = "http://localhost:5173"
        /\ Done(d) /\ HasOrigin(d)
        /\ request[d].headers["origin"] = "http://evil.example"
        /\ AllowOrigin \notin DOMAIN response[d].headers

\* what a GET request is answered with when it is the only request the
\* process ever serves
BodyAlone(req) ==
    CASE req.route = "/" -> RootPayload
      [] req.route = "/api/patients" -> SixPatients
      [] req.route = "/api/status" -> StatusPayload
      [] req.route = "/api/server" -> ServerPayload
      [] req.route = MetricsRoute ->
            IF req.patient_id \in DOMAIN RegisteredMetrics
            THEN RegisteredMetrics[req.patient_id]
            ELSE NotFoundBody

ResponseAlone(req) ==
    IF IsPreflight(req)
    THEN preflight_response(req.headers)
    ELSE CORSMiddleware(req, [status_code |-> 200,
                              headers |-> ("content-type" :> "application/json"),
                              body |-> BodyAlone(req)])

\* C7: in every state reached by any interleaving of the five operations the
\* patient table and the metrics table equal their values at process start,
\* and every response is the one its request gets when it runs alone.
NoOperationWrites ==
    /\ patients_data = patients_data_0
    /\ metrics_data = metrics_data_0
    /\ \A c \in Clients : Done(c) => response[c] = ResponseAlone(request[c])

SameMetricsServedConcurrently ==
    /\ ServedMetrics(1, "Patient_005")
    /\ ServedMetrics(2, "Patient_005")
    /\ response[1].body.json = "array"
    /\ response[2].body.json = "array"

PatientIds ==
    {patients_data.items[i].members.id.v : i \in DOMAIN patients_data.items}

IdsWithStatus(statuses) ==
    {patients_data.items[i].members.id.v :
        i \in {j \in DOMAIN patients_data.items :
                  patients_data.items[j].members.status.v \in statuses}}

\* C8: the keys of the metrics table are ids of the patient table, and no
\* patient whose status is processing or queued has a metrics entry.
MetricsKeysArePatients ==
    /\ DOMAIN metrics_data \subseteq PatientIds
    /\ IdsWithStatus({"processing", "queued"}) \cap DOMAIN metrics_data = {}

UnfinishedPatientsQueried ==
    /\ IdsWithStatus({"processing", "queued"}) = {"Patient_003", "Patient_006"}
    /\ ServedMetrics(1, "Patient_003")
    /\ ServedMetrics(2, "Patient_006")

\* C9: in every response of ListPatients a record has a non-null
\* inferenceTime exactly when its status is completed.
InferenceTimeIffCompleted ==
    \A c \in Clients :
        Served(c, "/api/patients") =>
            \A i \in DOMAIN response[c].body.items :
                LET rec == response[c].body.items[i].members
                IN  /\ (rec.inferenceTime # JNull) <=> (rec.status = JStr("completed"))
                    /\ rec.inferenceTime # JNull => rec.inferenceTime.json = "number"

ListingWithNullAndTimedRecords ==
    \E c \in Clients :
        /\ Served(c, "/api/patients")
        /\ response[c].body.items[3].members.inferenceTime = JNull
        /\ response[c].body.items[3].members.status = JStr("processing")
        /\ response[c].body.items[4].members.inferenceTime = JNum(510)

\* C10: GetMetrics answers with a metric list exactly for the ids of the
\* patients whose status is completed, Patient_004 (result Failed) included;
\* the metrics keys are the completed ids and every list is non-empty.
MetricsExactlyForCompleted ==
    /\ DOMAIN metrics_data = IdsWithStatus({"completed"})
    /\ \A c \in Clients :
          Served(c, MetricsRoute) =>
              /\ (response[c].body.json = "array")
                     <=> (request[c].patient_id \in IdsWithStatus({"completed"}))
              /\ (response[c].body.json = "array") => Len(response[c].body.items) > 0
              /\ (response[c].body.json # "array") => response[c].body = NotFoundBody

FailedButCompletedServed ==
    \E c \in Clients :
        /\ ServedMetrics(c, "Patient_004")
        /\ response[c].body.json = "array"
        /\ Len(response[c].body.items) = 3
        /\ \E i \in DOMAIN patients_data.items :
              /\ patients_data.items[i].members.id = PyStr("Patient_004")
              /\ patients_data.items[i].members.status = PyStr("completed")
              /\ patients_data.items[i].members.result = PyStr("Failed")

====
